---- MODULE Spec2Model ----
(***************************************************************************)
(* Model of the BART relay: the Observation Store (src/database.py,        *)
(* class BartDatabase over SQLite) and the Flask request handlers          *)
(* (src/app.py).                                                           *)
(*                                                                         *)
(* Time is counted in ticks; DayTicks ticks make one day.  `now` is the    *)
(* UTC clock (SQLite's CURRENT_TIMESTAMP, datetime('now'), date('now')),   *)
(* `tz` the offset of the host's local zone (Python's datetime.now()).     *)
(* A nullable SQL value is <<>> (NULL) or <<v>>.                           *)
(***************************************************************************)
EXTENDS Integers, Sequences, FiniteSets, TLC

VARIABLES
    now,            \* UTC clock, in ticks
    tz,             \* local zone offset of the host, in ticks
    stations,       \* table stations: a set of rows
    departures,     \* table departures: a set of rows
    daily_stats,    \* table daily_stats: a set of rows
    open_handles,   \* store handles constructed by a handler and not closed
    feed,           \* the upstream feed's current departure payload
    last,           \* the most recent call (or upstream publication) and its result
    history         \* history of the calls made: per station id the latest
                    \* save_station, and the number of save_departure calls

vars == <<now, tz, stations, departures, daily_stats, open_handles, feed, last, history>>

----------------------------------------------------------------------------
(* Bounds of the model *)

DayTicks == 2
MaxTicks == 1
MaxWeeks == 1
MaxDepartures == 3
MaxStats == 2
MaxOpenHandles == 1
MaxStoreRows == 3
MaxBlocks == 2
MaxGroups == 2
MaxEstimates == 2
MaxStationEntries == 2

----------------------------------------------------------------------------
(* Values *)

NULL == <<>>

Val(v) == <<v>>

Max(S) == CHOOSE x \in S : \A y \in S : y <= x

SumOver(S, f(_)) ==
    LET RECURSIVE Go(_)
        Go(T) == IF T = {} THEN 0
                 ELSE LET x == CHOOSE y \in T : TRUE IN f(x) + Go(T \ {x})
    IN Go(S)

RECURSIVE GCD(_, _)
GCD(a, b) == IF b = 0 THEN a ELSE GCD(b, a % b)

\* an exact quotient n/d (d > 0, n >= 0), reduced
Frac(n, d) == LET g == GCD(n, d) IN [num |-> n \div g, den |-> d \div g]

\* Python's dict.get(key): None when the key is absent
Get(d, k) == IF k \in DOMAIN d THEN Val(d[k]) ELSE NULL

\* Python's dict.get(key, default)
GetOr(d, k, default) == IF k \in DOMAIN d THEN d[k] ELSE default

----------------------------------------------------------------------------
(* Clock *)

\* SQLite date(x): the day of a UTC timestamp
Date(t) == t \div DayTicks

\* datetime.now(), the host's local time
LocalNow == now + tz

\* datetime.now().strftime('%Y-%m-%d')
LocalDate == LocalNow \div DayTicks

WindowDays == 7

WeekTicks == WindowDays * DayTicks

\* the zones the two deployments run in: UTC (the managed deployment) and a
\* zone west of it (local development)
TzOffsets == {0 - 1, 0}

StartOfTime == DayTicks

----------------------------------------------------------------------------
(* Schema *)

StationsColumns ==
    {"id", "name", "abbr", "city", "county", "state", "zipcode", "created_at"}

DeparturesColumns ==
    {"id", "station_id", "destination", "platform", "minutes", "direction",
     "color", "length", "bike_flag", "delay", "timestamp", "date", "created_at"}

DailyStatsColumns ==
    {"id", "station_id", "date", "total_departures", "delayed_departures",
     "avg_delay_minutes", "max_delay_minutes", "created_at"}

\* the columns under a PRIMARY KEY or UNIQUE constraint, per table
StationsKey == {"id"}

DailyStatsKey == {"id"}

\* INTEGER PRIMARY KEY AUTOINCREMENT: one more than the largest id used
\* (no row of these tables is ever deleted with a larger id still unused)
NextId(table) == IF table = {} THEN 1 ELSE 1 + Max({r.id : r \in table})

\* INSERT OR REPLACE taken for a plain INSERT
InsertKeepingOld(table, row, key) == table \cup {row}

\* INSERT OR REPLACE: rows that collide with the new row on the table's key
\* are deleted, then the row is inserted
InsertOrReplace(table, row, key) ==
    {r \in table : \E c \in key : r[c] # row[c]} \cup {row}

\* an INSERT that skips a row whose data is already stored
InsertUnlessStored(table, row) ==
    IF \E r \in table : [r EXCEPT !.id = row.id] = row THEN table ELSE table \cup {row}

\* INSERT
Insert(table, row) == table \cup {row}

----------------------------------------------------------------------------
(* Inputs *)

StationIds == {"EMBR", "MONT"}

\* per identifier: a station_data with the required keys only, and one with
\* another name and every optional key
StationData ==
    { [id |-> i, name |-> "Station", abbr |-> i] : i \in StationIds }
    \cup
    { [id |-> i, name |-> "Station (renamed)", abbr |-> i, city |-> "San Francisco",
       county |-> "sanfrancisco", state |-> "CA", zipcode |-> "94105"] :
      i \in StationIds }

\* sample departure_data: both stations, an empty and a named destination,
\* delays below, at and above zero, and one record without the delay key
DepartureData ==
    { [station_id |-> "EMBR", destination |-> "Daly City", minutes |-> 5,
       direction |-> "South", platform |-> "2"],
      [station_id |-> "EMBR", destination |-> "Daly City", minutes |-> 5,
       direction |-> "South", platform |-> "2", delay |-> 3],
      [station_id |-> "EMBR", destination |-> "", minutes |-> 5,
       direction |-> "South", platform |-> "2", delay |-> 6],
      [station_id |-> "EMBR", destination |-> "Daly City", minutes |-> 5,
       direction |-> "South", platform |-> "2", delay |-> 0 - 2],
      [station_id |-> "MONT", destination |-> "Daly City", minutes |-> 5,
       direction |-> "South", platform |-> "2", delay |-> 3],
      [station_id |-> "MONT", destination |-> "", minutes |-> 5,
       direction |-> "South", platform |-> "2", delay |-> 0] }

NoCall == [op |-> "none"]

----------------------------------------------------------------------------
(* BartDatabase *)

StationRow(station_data, t) ==
    [id |-> station_data["id"],
     name |-> station_data["name"],
     abbr |-> station_data["abbr"],
     city |-> Get(station_data, "city"),
     county |-> Get(station_data, "county"),
     state |-> Get(station_data, "state"),
     zipcode |-> Get(station_data, "zipcode"),
     created_at |-> t]

save_station(station_data) ==
    /\ stations' = InsertOrReplace(stations, StationRow(station_data, now), StationsKey)
    /\ history' = [history EXCEPT !.saved =
                        [i \in DOMAIN @ \cup {station_data["id"]} |->
                            IF i = station_data["id"]
                            THEN [data |-> station_data, replaced |-> i \in DOMAIN @]
                            ELSE @[i]]]
    /\ last' = [op |-> "save_station"]
    /\ UNCHANGED <<now, tz, departures, daily_stats, open_handles, feed>>

SaveStation == \E station_data \in StationData : save_station(station_data)

DepartureRow(departure_data, id) ==
    [id |-> id,
     station_id |-> departure_data["station_id"],
     destination |-> departure_data["destination"],
     platform |-> Get(departure_data, "platform"),
     minutes |-> departure_data["minutes"],
     direction |-> departure_data["direction"],
     color |-> Get(departure_data, "color"),
     length |-> Get(departure_data, "length"),
     bike_flag |-> Get(departure_data, "bike_flag"),
     delay |-> GetOr(departure_data, "delay", 0),
     timestamp |-> now,
     date |-> LocalDate,
     created_at |-> now]

save_departure(departure_data) ==
    /\ Cardinality(departures) < MaxDepartures
    /\ departures' = Insert(departures, DepartureRow(departure_data, NextId(departures)))
    /\ history' = [history EXCEPT !.departure_calls = @ + 1]
    /\ last' = [op |-> "save_departure"]
    /\ UNCHANGED <<now, tz, stations, daily_stats, open_handles, feed>>

SaveDeparture == \E departure_data \in DepartureData : save_departure(departure_data)

\* the aggregate SELECT of update_daily_stats: <<total, delayed, avg_delay, max_delay>>,
\* each as SQLite returns it (SUM, AVG and MAX of no rows are NULL)
DailyAggregate(station_id, date) ==
    LET rows == {r \in departures :
                    r.station_id = station_id /\ Date(r.created_at) = date}
        late == {r \in rows : r.delay > 0}
    IN <<Cardinality(rows),
         IF rows = {} THEN NULL ELSE Val(Cardinality(late)),
         IF late = {} THEN NULL
         ELSE Val(Frac(SumOver(late, LAMBDA r : r.delay), Cardinality(late))),
         IF rows = {} THEN NULL
         ELSE Val(Max({IF r.delay > 0 THEN r.delay ELSE 0 : r \in rows}))>>

\* Python's `x or 0` on an integer column value
OrZero(x) == IF x = NULL THEN 0 ELSE x[1]

\* Python's `x or 0` on the AVG column
OrZeroFrac(x) == IF x = NULL THEN Frac(0, 1) ELSE x[1]

DailyStatsRow(station_id, date, stats, id) ==
    [id |-> id,
     station_id |-> station_id,
     date |-> date,
     total_departures |-> stats[1],
     delayed_departures |-> OrZero(stats[2]),
     avg_delay_minutes |-> OrZeroFrac(stats[3]),
     max_delay_minutes |-> OrZero(stats[4]),
     created_at |-> now]

update_daily_stats(station_id, date) ==
    /\ Cardinality(daily_stats) < MaxStats
    /\ daily_stats' =
          InsertOrReplace(daily_stats,
                          DailyStatsRow(station_id, date,
                                        DailyAggregate(station_id, date),
                                        NextId(daily_stats)),
                          DailyStatsKey)
    /\ last' = [op |-> "update_daily_stats"]
    /\ UNCHANGED <<now, tz, stations, departures, open_handles, feed, history>>

UpdateDailyStats ==
    \E station_id \in StationIds, date \in {Date(now), LocalDate} :
        update_daily_stats(station_id, date)

----------------------------------------------------------------------------
(* The clock *)

Tick ==
    /\ (now - StartOfTime) % WeekTicks < MaxTicks
    /\ now' = now + 1
    /\ UNCHANGED <<tz, stations, departures, daily_stats, open_handles, feed, last, history>>

SkipWeek ==
    /\ (now - StartOfTime) \div WeekTicks < MaxWeeks
    /\ now' = now + WeekTicks
    /\ UNCHANGED <<tz, stations, departures, daily_stats, open_handles, feed, last, history>>

----------------------------------------------------------------------------------------------------------------------------------------------
(* Store handles: BartDatabase() ... db.close() *)

\* what can go wrong with the store while a handler uses it
StorageOutcomes == {"ok", "open_error", "query_error"}

\* an SQL statement compiles only when every column it names is in the table
Compiles(columns, tableColumns) == columns \subseteq tableColumns

----------------------------------------------------------------------------
(* Rounding *)

\* n/d (n >= 0, d > 0) to one decimal, as a count of tenths; ties away from
\* zero (SQLite's ROUND)
RoundTenthsHalfUp(n, d) == (20 * n + d) \div (2 * d)

\* n/d (n >= 0, d > 0) to one decimal, as a count of tenths; ties to the even
\* tenth (Python's round)
RoundTenthsHalfEven(n, d) ==
    LET q == (10 * n) \div d
        r == (10 * n) % d
    IN IF 2 * r > d \/ (2 * r = d /\ q % 2 = 1) THEN q + 1 ELSE q

Abs(x) == IF x < 0 THEN 0 - x ELSE x

----------------------------------------------------------------------------
(* /api/analytics/stations *)

\* the window with its boundary excluded
InWindowExclusive(r) == r.timestamp > now - WeekTicks

\* WHERE d.timestamp >= datetime('now', '-7 days')
InWindow(r) == r.timestamp >= now - WeekTicks

\* one row per destination: <<destination, total_departures, delayed_trains,
\* avg_delay_minutes (tenths)>>
AnalyticsGroups ==
    LET rows == {r \in departures : InWindow(r)}
    IN { LET g == {r \in rows : r.destination = d}
         IN <<d, Cardinality(g), Cardinality({r \in g : r.delay # 0}),
              RoundTenthsHalfUp(SumOver(g, LAMBDA r : Abs(r.delay)), Cardinality(g))>> :
         d \in {r.destination : r \in rows} }

\* ORDER BY total_departures DESC: every order of the groups that is
\* descending in the total (SQL leaves the order of ties open)
OrderedByTotal(groups) ==
    { q \in [1..Cardinality(groups) -> groups] :
        /\ \A i, j \in DOMAIN q : i # j => q[i] # q[j]
        /\ \A i, j \in DOMAIN q : i < j => q[i][2] >= q[j][2] }

\* Python's `x or 'Unknown'` on a string
OrUnknown(x) == IF x = "" THEN "Unknown" ELSE x

AnalyticsEntry(stat) ==
    [destination |-> OrUnknown(stat[1]),
     total_departures |-> stat[2],
     delayed_trains |-> stat[3],
     avg_delay_minutes |-> stat[4]]

AnalyticsBody(stats) ==
    LET analytics == [i \in DOMAIN stats |-> AnalyticsEntry(stats[i])]
    IN IF analytics = <<>>
       THEN [status |-> "No data available", timestamp |-> LocalNow, data |-> <<>>]
       ELSE [status |-> "Data available", timestamp |-> LocalNow, data |-> analytics]

AnalyticsError(message) ==
    [status |-> "Error", timestamp |-> LocalNow, error |-> message, data |-> <<>>]

get_station_analytics(storage) ==
    /\ CASE storage = "open_error" ->
              /\ last' = [op |-> "get_station_analytics", at |-> now, env |-> storage, failure |-> "storage",
                          code |-> 500,
                          body |-> AnalyticsError("unable to open database file")]
              /\ UNCHANGED open_handles
         [] storage = "query_error" ->
              /\ open_handles < MaxOpenHandles
              /\ last' = [op |-> "get_station_analytics", at |-> now, env |-> storage, failure |-> "storage",
                          code |-> 500,
                          body |-> AnalyticsError("disk I/O error")]
              /\ open_handles' = open_handles + 1
         [] OTHER ->
              /\ \E stats \in OrderedByTotal(AnalyticsGroups) :
                    last' = [op |-> "get_station_analytics", at |-> now, env |-> storage, failure |-> "none",
                             code |-> 200, body |-> AnalyticsBody(stats)]
              /\ UNCHANGED open_handles
    /\ UNCHANGED <<now, tz, stations, departures, daily_stats, feed, history>>

GetStationAnalytics == \E storage \in StorageOutcomes : get_station_analytics(storage)

----------------------------------------------------------------------------
(* /api/analytics/daily *)

GetDailyAnalytics ==
    /\ last' = [op |-> "get_daily_analytics", at |-> now, env |-> "ok", failure |-> "none", code |-> 200,
                body |-> [status |-> "No historical data available",
                          timestamp |-> LocalNow, data |-> <<>>]]
    /\ UNCHANGED <<now, tz, stations, departures, daily_stats, open_handles, feed, history>>

----------------------------------------------------------------------------
(* /api/performance/<station> *)

\* WHERE station_id = ? AND date(timestamp) = date('now')
TodayOf(station) ==
    {r \in departures : r.station_id = station /\ Date(r.timestamp) = Date(now)}

\* WHERE date(timestamp) = date('now')
Today == {r \in departures : Date(r.timestamp) = Date(now)}

\* the columns the first SELECT of get_performance_data names
PerformanceStationColumns == {"delay", "station_id", "timestamp"}

\* the columns the second SELECT of get_performance_data names
PerformanceSystemColumns == {"train_id", "delay", "timestamp"}

\* AVG(delay) of a non-empty set of rows, rounded by Python's round(x, 1), in tenths
AvgDelayTenths(rows) ==
    LET total == SumOver(rows, LAMBDA r : r.delay)
    IN IF total >= 0 THEN RoundTenthsHalfEven(total, Cardinality(rows))
       ELSE 0 - RoundTenthsHalfEven(0 - total, Cardinality(rows))

\* the tenths of round(on_time / total * 100, 1)
OnTimeRate(on_time, total) ==
    IF total > 0 THEN RoundTenthsHalfEven(100 * on_time, total) ELSE 0

PerformanceData(station) ==
    LET rows == TodayOf(station)
    IN [ridership |-> Cardinality(rows),
        onTimeRate |-> OnTimeRate(Cardinality({r \in rows : r.delay = 0}),
                                  Cardinality(rows)),
        avgDelay |-> IF rows = {} THEN 0 ELSE AvgDelayTenths(rows),
        systemStatus |->
            [activeTrains |-> 0,
             delays |-> Cardinality({r \in Today : r.delay > 0}),
             elevators |-> [total |-> 50, down |-> 2],
             parking |-> [capacity |-> 1000, available |-> 850]]]

\* the error body without its message
PerformanceErrorNoMessage(message) == [status |-> "error"]

PerformanceError(message) == [status |-> "error", error |-> message]

get_performance_data(station, storage) ==
    /\ CASE storage = "open_error" ->
              /\ last' = [op |-> "get_performance_data", station |-> station,
                          at |-> now, env |-> storage, failure |-> "storage", code |-> 500,
                          body |-> PerformanceError("unable to open database file")]
              /\ UNCHANGED open_handles
         [] storage = "query_error" ->
              /\ open_handles < MaxOpenHandles
              /\ last' = [op |-> "get_performance_data", station |-> station,
                          at |-> now, env |-> storage, failure |-> "storage", code |-> 500,
                          body |-> PerformanceError("disk I/O error")]
              /\ open_handles' = open_handles + 1
         [] OTHER ->
              IF /\ Compiles(PerformanceStationColumns, DeparturesColumns)
                 /\ Compiles(PerformanceSystemColumns, DeparturesColumns)
              THEN /\ last' = [op |-> "get_performance_data", station |-> station,
                               at |-> now, env |-> storage, failure |-> "none", code |-> 200,
                               body |-> [status |-> "success",
                                         data |-> PerformanceData(station)]]
                   /\ UNCHANGED open_handles
              ELSE /\ open_handles < MaxOpenHandles
                   /\ last' = [op |-> "get_performance_data", station |-> station,
                               at |-> now, env |-> storage, failure |-> "storage", code |-> 500,
                               body |-> PerformanceError("no such column: train_id")]
                   /\ open_handles' = open_handles + 1
    /\ UNCHANGED <<now, tz, stations, departures, daily_stats, feed, history>>

GetPerformanceData ==
    \E station \in StationIds, storage \in StorageOutcomes :
        get_performance_data(station, storage)

----------------------------------------------------------------------------
(* Text: a string the program parses is a sequence of characters *)

Leaving == <<"L", "e", "a", "v", "i", "n", "g">>

DigitChars == {"0", "1", "2", "3", "4", "5", "6", "7", "8", "9"}

DigitValue(c) ==
    CASE c = "0" -> 0 [] c = "1" -> 1 [] c = "2" -> 2 [] c = "3" -> 3 [] c = "4" -> 4
      [] c = "5" -> 5 [] c = "6" -> 6 [] c = "7" -> 7 [] c = "8" -> 8 [] c = "9" -> 9

RECURSIVE StripLeft(_)
StripLeft(s) == IF s # <<>> /\ Head(s) = " " THEN StripLeft(Tail(s)) ELSE s

RECURSIVE StripRight(_)
StripRight(s) ==
    IF s # <<>> /\ s[Len(s)] = " " THEN StripRight(SubSeq(s, 1, Len(s) - 1)) ELSE s

RECURSIVE DigitsValue(_)
DigitsValue(s) ==
    IF s = <<>> THEN 0
    ELSE 10 * DigitsValue(SubSeq(s, 1, Len(s) - 1)) + DigitValue(s[Len(s)])

\* Python's int(text): blanks around, an optional sign, decimal digits;
\* anything else raises ValueError
ParseInt(text) ==
    LET t == StripRight(StripLeft(text))
        signed == t # <<>> /\ Head(t) \in {"+", "-"}
        digits == IF signed THEN Tail(t) ELSE t
    IN IF digits # <<>> /\ \A i \in DOMAIN digits : digits[i] \in DigitChars
       THEN [ok |-> TRUE,
             value |-> IF signed /\ Head(t) = "-" THEN 0 - DigitsValue(digits)
                       ELSE DigitsValue(digits)]
       ELSE [ok |-> FALSE]

----------------------------------------------------------------------------
(* The upstream feed *)

\* what the upstream call of a handler can come to
FetchOutcomes == {"ok", "transport_error", "http_error", "not_json"}

FetchErrors == FetchOutcomes \ {"ok"}

MinutesValues == {Leaving, <<"5">>, <<"1", "2">>, <<"N", "/", "A">>}

\* estimates with each minutes value, and one whose length is the empty string
Estimates ==
    { [minutes |-> m, platform |-> "2", direction |-> "South", length |-> <<"1", "0">>] :
        m \in MinutesValues }
    \cup
    { [minutes |-> <<"5">>, platform |-> "2", direction |-> "South", length |-> <<>>] }

FeedDestinations == {"Daly City", "Richmond"}

StationList == feed["root"]["station"]

HasStationList == "root" \in DOMAIN feed /\ "station" \in DOMAIN feed["root"]

LastBlock == StationList[Len(StationList)]

HasGroupList == HasStationList /\ StationList # <<>> /\ "etd" \in DOMAIN LastBlock

RECURSIVE SumSeq(_)
SumSeq(q) == IF q = <<>> THEN 0 ELSE Head(q) + SumSeq(Tail(q))

GroupsOf(block) == IF "etd" \in DOMAIN block THEN block["etd"] ELSE <<>>

TotalGroups ==
    IF HasStationList
    THEN SumSeq([b \in DOMAIN StationList |-> Len(GroupsOf(StationList[b]))])
    ELSE 0

TotalEstimates ==
    IF HasStationList
    THEN SumSeq([b \in DOMAIN StationList |->
                    SumSeq([g \in DOMAIN GroupsOf(StationList[b]) |->
                               Len(GroupsOf(StationList[b])[g]["estimate"])])])
    ELSE 0

Published(payload) ==
    /\ feed' = payload
    /\ last' = [op |-> "upstream"]
    /\ UNCHANGED <<now, tz, stations, departures, daily_stats, open_handles, history>>

\* {} , {"root": {}} , {"root": {"station": []}}
UpstreamPublishEmpty ==
    \E payload \in {<<>>, [root |-> <<>>], [root |-> [station |-> <<>>]]} :
        /\ payload # feed
        /\ Published(payload)

UpstreamAddBlock ==
    /\ HasStationList
    /\ Len(StationList) < MaxBlocks
    /\ \E block \in {[name |-> "Embarcadero", abbr |-> "EMBR"],
                     [name |-> "Embarcadero", abbr |-> "EMBR", etd |-> <<>>]} :
          Published([root |-> [station |-> Append(StationList, block)]])

UpstreamAddGroup ==
    /\ HasGroupList
    /\ TotalGroups < MaxGroups
    /\ \E destination \in FeedDestinations :
          Published([root |-> [station |->
              [StationList EXCEPT ![Len(StationList)]["etd"] =
                  Append(@, [destination |-> destination, estimate |-> <<>>])]]])

UpstreamAddEstimate ==
    /\ HasGroupList
    /\ LastBlock["etd"] # <<>>
    /\ TotalEstimates < MaxEstimates
    /\ \E estimate \in Estimates :
          Published([root |-> [station |->
              [StationList EXCEPT ![Len(StationList)]["etd"][Len(LastBlock["etd"])]["estimate"] =
                  Append(@, estimate)]]])

----------------------------------------------------------------------------
(* /api/departures/<station> *)

RECURSIVE Concat(_)
Concat(qs) == IF qs = <<>> THEN <<>> ELSE Head(qs) \o Concat(Tail(qs))

\* the conversions without the sentinel's case
ConversionsNoSentinel(estimate) ==
    <<ParseInt(estimate["minutes"]), ParseInt(estimate["length"])>>

\* the int(...) conversions of one departure record, minutes first
Conversions(estimate) ==
    <<ParseInt(IF estimate["minutes"] # Leaving THEN estimate["minutes"] ELSE <<"0">>),
      ParseInt(estimate["length"])>>

DepartureRecord(destination, estimate) ==
    [timestamp |-> LocalNow,
     destination |-> destination,
     minutes |-> Conversions(estimate)[1].value,
     platform |-> estimate["platform"],
     direction |-> estimate["direction"],
     delay |-> 0,
     length |-> Conversions(estimate)[2].value]

\* the estimates the loops visit, in order, each with its group's destination
Visited(data) ==
    IF "root" \in DOMAIN data /\ "station" \in DOMAIN data["root"]
    THEN LET station_data == data["root"]["station"][1]
         IN IF "etd" \in DOMAIN station_data
            THEN Concat([g \in DOMAIN station_data["etd"] |->
                    [e \in DOMAIN station_data["etd"][g]["estimate"] |->
                        <<station_data["etd"][g]["destination"],
                          station_data["etd"][g]["estimate"][e]>>]])
            ELSE <<>>
    ELSE <<>>

\* the exception the body of the try block raises on this payload, "" when none
Raised(data) ==
    IF /\ "root" \in DOMAIN data /\ "station" \in DOMAIN data["root"]
       /\ data["root"]["station"] = <<>>
    THEN "list index out of range"
    ELSE IF \E i \in DOMAIN Visited(data) :
                \E c \in 1..2 : ~Conversions(Visited(data)[i][2])[c].ok
         THEN "invalid literal for int() with base 10"
         ELSE ""

DeparturesBody(data) ==
    [status |-> "Data available",
     timestamp |-> LocalNow,
     departures |-> [i \in DOMAIN Visited(data) |->
                        DepartureRecord(Visited(data)[i][1], Visited(data)[i][2])]]

DeparturesError(message) ==
    [status |-> "Error", timestamp |-> LocalNow, error |-> message, departures |-> <<>>]

get_departures(station, fetch) ==
    /\ last' =
          IF fetch \in FetchErrors
          THEN [op |-> "get_departures", at |-> now, env |-> fetch, failure |-> "transport",
                code |-> 500, body |-> DeparturesError(fetch)]
          ELSE IF Raised(feed) # ""
          THEN [op |-> "get_departures", at |-> now, env |-> fetch, failure |-> "payload",
                code |-> 500, body |-> DeparturesError(Raised(feed))]
          ELSE [op |-> "get_departures", at |-> now, env |-> fetch, failure |-> "none",
                code |-> 200, body |-> DeparturesBody(feed)]
    /\ UNCHANGED <<now, tz, stations, departures, daily_stats, open_handles, feed, history>>

GetDepartures ==
    \E station \in StationIds, fetch \in FetchOutcomes : get_departures(station, fetch)

----------------------------------------------------------------------------
(* /api/stations *)

StationEntries ==
    {[name |-> "Embarcadero", abbr |-> "EMBR", city |-> "San Francisco"],
     [name |-> "Montgomery St."]}

\* the station-list payloads the upstream returns
StationPayloads ==
    {<<>>}
    \cup
    { [root |-> [stations |-> [station |-> q]]] :
        q \in UNION {[1..n -> StationEntries] : n \in 0..MaxStationEntries} }

\* the KeyError of data['root']['stations']['station'] and of station['name'],
\* station['abbr'], "" when none
StationsRaised(data) ==
    IF "root" \notin DOMAIN data THEN "'root'"
    ELSE IF "stations" \notin DOMAIN data["root"] THEN "'stations'"
    ELSE IF "station" \notin DOMAIN data["root"]["stations"] THEN "'station'"
    ELSE IF \E i \in DOMAIN data["root"]["stations"]["station"] :
                "abbr" \notin DOMAIN data["root"]["stations"]["station"][i]
         THEN "'abbr'"
         ELSE ""

StationsBody(data) ==
    [i \in DOMAIN data["root"]["stations"]["station"] |->
        [name |-> data["root"]["stations"]["station"][i]["name"],
         abbr |-> data["root"]["stations"]["station"][i]["abbr"]]]

StationsError(message) == [error |-> message]

get_stations(fetch, data) ==
    /\ last' =
          IF fetch \in FetchErrors
          THEN [op |-> "get_stations", at |-> now, env |-> fetch, failure |-> "transport",
                code |-> 500, body |-> StationsError(fetch)]
          ELSE IF StationsRaised(data) # ""
          THEN [op |-> "get_stations", at |-> now, env |-> fetch, failure |-> "payload",
                code |-> 500, body |-> StationsError(StationsRaised(data))]
          ELSE [op |-> "get_stations", at |-> now, env |-> fetch, failure |-> "none",
                code |-> 200, body |-> StationsBody(data)]
    /\ UNCHANGED <<now, tz, stations, departures, daily_stats, open_handles, feed, history>>

GetStations ==
    \/ \E fetch \in FetchErrors : get_stations(fetch, <<>>)
    \/ \E data \in StationPayloads : get_stations("ok", data)

----------
(* Specifications *)

Init ==
    /\ now = StartOfTime
    /\ tz \in TzOffsets
    /\ stations = {}
    /\ departures = {}
    /\ daily_stats = {}
    /\ open_handles = 0
    /\ feed = <<>>
    /\ last = NoCall
    /\ history = [saved |-> <<>>, departure_calls |-> 0]

NextStations == SaveStation \/ Tick \/ SkipWeek

SpecStations == Init /\ [][NextStations]_vars

NextStats == SaveDeparture \/ UpdateDailyStats \/ Tick

SpecStats == Init /\ [][NextStats]_vars

NextService ==
    SaveDeparture \/ Tick \/ SkipWeek \/ GetStationAnalytics \/ GetPerformanceData

SpecService == Init /\ [][NextService]_vars

NextFeed ==
    \/ UpstreamPublishEmpty \/ UpstreamAddBlock \/ UpstreamAddGroup \/ UpstreamAddEstimate
    \/ GetStations \/ GetDepartures \/ GetDailyAnalytics
    \/ GetStationAnalytics \/ GetPerformanceData

SpecFeed == Init /\ [][NextFeed]_vars

StoreRows == Cardinality(stations) + Cardinality(departures) + Cardinality(daily_stats)

\* every operation, on a store of at most MaxStoreRows rows
NextAll ==
    \/ SaveStation /\ StoreRows' <= MaxStoreRows
    \/ SaveDeparture /\ StoreRows' <= MaxStoreRows
    \/ UpdateDailyStats /\ StoreRows' <= MaxStoreRows
    \/ GetStations \/ GetDepartures \/ GetDailyAnalytics
    \/ GetStationAnalytics \/ GetPerformanceData

SpecAll == Init /\ [][NextAll]_vars

----------------------------------------------------------------------------
(* Properties *)

Endpoints ==
    {"get_stations", "get_departures", "get_daily_analytics",
     "get_station_analytics", "get_performance_data"}

IsResponse == last.op \in Endpoints

Failed == IsResponse /\ last.failure # "none"

\* the row of daily_stats inserted last
NewestStat == CHOOSE r \in daily_stats : \A q \in daily_stats : q.id <= r.id

\* the save_departure calls for a station made on a day: each call left one
\* row, stamped with the day of the call
CallsOn(station_id, date) ==
    {r \in departures : r.station_id = station_id /\ r.date = date}

\* C1: daily_stats holds at most one row per (station_id, date).
C1_OneRowPerStationAndDate ==
    \A r, q \in daily_stats :
        (r.station_id = q.station_id /\ r.date = q.date) => r = q

\* what C2 asks of the row update_daily_stats(s, d) stores, given the calls
\* it is to summarise
Summarises(row, calls) ==
    LET late == {r \in calls : r.delay > 0}
    IN /\ row.total_departures = Cardinality(calls)
       /\ row.delayed_departures = Cardinality(late)
       /\ row.avg_delay_minutes.num * Cardinality(late) =
              SumOver(late, LAMBDA r : r.delay) * row.avg_delay_minutes.den
       /\ late = {} => row.avg_delay_minutes.num = 0 /\ row.max_delay_minutes = 0
       /\ late # {} => /\ \E r \in late : r.delay = row.max_delay_minutes
                       /\ \A r \in late : r.delay <= row.max_delay_minutes

\* C2: after N save_departure calls for station s made on day d,
\* update_daily_stats(s, d) stores total_departures = N, delayed_departures =
\* the number of those with delay > 0, and the mean and maximum of delay over
\* the delayed ones (0 when none is delayed).
C2_StatsOfTheDaysCalls ==
    last.op = "update_daily_stats" =>
        Summarises(NewestStat, CallsOn(NewestStat.station_id, NewestStat.date))

\* C2 on a host whose local zone is UTC
C2_StatsOfTheDaysCallsInUTC == tz = 0 => C2_StatsOfTheDaysCalls

RowsOf(id) == {r \in stations : r.id = id}

\* C3: the stations table holds exactly one row per identifier saved, with
\* the name, abbr, city, county, state and zipcode of the latest save_station
\* for it (an absent optional key is NULL), and saving the same data once
\* more leaves the table as it is.
C3_StationUpsert ==
    /\ \A id \in StationIds :
          Cardinality(RowsOf(id)) = IF id \in DOMAIN history.saved THEN 1 ELSE 0
    /\ \A r \in stations :
          LET d == history.saved[r.id].data
          IN /\ r.name = d["name"] /\ r.abbr = d["abbr"]
             /\ \A k \in {"city", "county", "state", "zipcode"} :
                   r[k] = IF k \in DOMAIN d THEN <<d[k]>> ELSE <<>>
             /\ InsertOrReplace(stations, StationRow(d, r.created_at), StationsKey)
                    = stations

\* an identifier saved again, with other attributes, after the clock moved on
C3_Witness ==
    \E r \in stations :
        /\ history.saved[r.id].replaced
        /\ r.name = "Station (renamed)" /\ r.city = <<"San Francisco">>
        /\ r.created_at > StartOfTime
        /\ Cardinality(stations) = 2

\* C4: no step removes or changes a departures row, and the table grows by
\* exactly one row with each save_departure call.
C4_AppendOnly ==
    [][/\ departures \subseteq departures'
       /\ Cardinality(departures') - Cardinality(departures) =
              history'.departure_calls - history.departure_calls]_vars

\* two rows with the same data, of a station whose row was replaced, and a
\* request answered from them
C4_Witness ==
    /\ \E r, q \in departures :
          /\ r.id # q.id /\ [r EXCEPT !.id = q.id] = q
          /\ r.station_id \in DOMAIN history.saved
          /\ history.saved[r.station_id].replaced
    /\ history.departure_calls = 2
    /\ last.op = "get_station_analytics" /\ last.failure = "none"

\* C5: the performance snapshot request for s succeeds with ridership = the
\* number of today's departures of s and onTimeRate = the share of them with
\* delay 0, as a percentage rounded to one decimal (0 when there are none).
C5_PerformanceSnapshot ==
    (last.op = "get_performance_data" /\ last.env = "ok") =>
        LET rows == {r \in departures : r.station_id = last.station
                                        /\ Date(r.timestamp) = Date(last.at)}
            on_time == {r \in rows : r.delay = 0}
        IN /\ last.code = 200
           /\ last.body.status = "success"
           /\ last.body.data.ridership = Cardinality(rows)
           /\ rows = {} => last.body.data.onTimeRate = 0
           /\ rows # {} =>
                 LET tenths == last.body.data.onTimeRate
                     off == tenths * Cardinality(rows) - 1000 * Cardinality(on_time)
                 IN 2 * Abs(off) <= Cardinality(rows)

\* C6, as claimed: every failure inside a handler gives a server-error
\* response whose body has a status field, an error message and an empty
\* data collection.
C6_UniformErrorEnvelope ==
    Failed =>
        /\ last.code = 500
        /\ {"status", "error"} \subseteq DOMAIN last.body
        /\ \E k \in {"data", "departures"} :
              k \in DOMAIN last.body /\ last.body[k] = <<>>

\* C6, amended: every failure inside a handler gives a response with status
\* code 500 whose body carries an error message; live departures and
\* destination analytics add the status "Error" and an empty collection, the
\* performance snapshot adds the status "error" and no collection, the
\* station list adds nothing.
C6_ErrorEnvelopes ==
    Failed =>
        /\ last.code = 500
        /\ "error" \in DOMAIN last.body
        /\ last.op = "get_departures" =>
              /\ DOMAIN last.body = {"status", "timestamp", "error", "departures"}
              /\ last.body.status = "Error" /\ last.body.departures = <<>>
        /\ last.op = "get_station_analytics" =>
              /\ DOMAIN last.body = {"status", "timestamp", "error", "data"}
              /\ last.body.status = "Error" /\ last.body.data = <<>>
        /\ last.op = "get_performance_data" =>
              /\ DOMAIN last.body = {"status", "error"}
              /\ last.body.status = "error"
        /\ last.op = "get_stations" => DOMAIN last.body = {"error"}

\* a station list whose entry lacks its abbr, answered with the bare message
C6_Witness ==
    /\ last.op = "get_stations" /\ last.env = "ok" /\ last.failure = "payload"
    /\ last.code = 500 /\ last.body = [error |-> "'abbr'"]

\* every estimate the payload holds, block by block, group by group
AllEstimates(data) ==
    IF "root" \in DOMAIN data /\ "station" \in DOMAIN data["root"]
    THEN Concat([b \in DOMAIN data["root"]["station"] |->
            LET groups == GroupsOf(data["root"]["station"][b])
            IN Concat([g \in DOMAIN groups |->
                  [e \in DOMAIN groups[g]["estimate"] |->
                      <<groups[g]["destination"], groups[g]["estimate"][e]>>]])])
    ELSE <<>>

\* the estimates of the first station block
FirstBlockEstimates(data) ==
    IF "root" \in DOMAIN data /\ "station" \in DOMAIN data["root"]
       /\ data["root"]["station"] # <<>>
    THEN LET groups == GroupsOf(data["root"]["station"][1])
         IN Concat([g \in DOMAIN groups |->
               [e \in DOMAIN groups[g]["estimate"] |->
                   <<groups[g]["destination"], groups[g]["estimate"][e]>>]])
    ELSE <<>>

DigitChar(n) ==
    CASE n = 0 -> "0" [] n = 1 -> "1" [] n = 2 -> "2" [] n = 3 -> "3" [] n = 4 -> "4"
      [] n = 5 -> "5" [] n = 6 -> "6" [] n = 7 -> "7" [] n = 8 -> "8" [] n = 9 -> "9"

\* the decimal literal of a natural number
RECURSIVE Decimal(_)
Decimal(n) == IF n < 10 THEN <<DigitChar(n)>> ELSE Append(Decimal(n \div 10), DigitChar(n % 10))

IsLiteral(text) == \E n \in 0..99 : Decimal(n) = text

\* the record is the estimate's: its group's destination, delay 0, minutes 0
\* for the sentinel and else the integer the upstream value is the literal of
RecordOf(record, destination, estimate) ==
    /\ record.destination = destination
    /\ record.delay = 0
    /\ estimate["minutes"] = Leaving => record.minutes = 0
    /\ estimate["minutes"] # Leaving =>
          record.minutes >= 0 /\ Decimal(record.minutes) = estimate["minutes"]

OneRecordPer(estimates) ==
    /\ Len(last.body.departures) = Len(estimates)
    /\ \A i \in DOMAIN estimates :
          RecordOf(last.body.departures[i], estimates[i][1], estimates[i][2])

ServedFeed == last.op = "get_departures" /\ last.env = "ok"

\* the payload misses the root key, the station key or the first block's etd
\* key, or has no station block, no destination group, or a group without
\* estimates; every value it does hold is well-formed
MissesParts(data) ==
    /\ \A i \in DOMAIN AllEstimates(data) :
          /\ AllEstimates(data)[i][2]["minutes"] = Leaving
                \/ IsLiteral(AllEstimates(data)[i][2]["minutes"])
          /\ IsLiteral(AllEstimates(data)[i][2]["length"])
    /\ \/ "root" \notin DOMAIN data
       \/ "station" \notin DOMAIN data["root"]
       \/ data["root"]["station"] = <<>>
       \/ "etd" \notin DOMAIN data["root"]["station"][1]
       \/ data["root"]["station"][1]["etd"] = <<>>
       \/ \E g \in DOMAIN data["root"]["station"][1]["etd"] :
             data["root"]["station"][1]["etd"][g]["estimate"] = <<>>

\* C7: a payload that misses the root, station or etd key, or has no station
\* block, no destination group or a group without estimates, is answered with
\* the success status "Data available" and the (shorter or empty) list of
\* its estimates, never with the error envelope.
C7_MissingPartsAreNoData ==
    (ServedFeed /\ MissesParts(feed)) =>
        /\ last.code = 200
        /\ last.body.status = "Data available"
        /\ Len(last.body.departures) = Len(FirstBlockEstimates(feed))

\* C7 for the payloads that have a station block, or no station list at all
C7_MissingPartsWithStationBlock ==
    (HasStationList => StationList # <<>>) => C7_MissingPartsAreNoData

\* C8, as claimed: the response holds one record per estimate of the
\* payload, in upstream order.
C8_OneRecordPerEstimate == ServedFeed => OneRecordPer(AllEstimates(feed))

\* each estimate of the first station block has a minutes value that is the
\* sentinel or an integer literal, and a length that is an integer literal
FirstBlockWellFormed(data) ==
    \A i \in DOMAIN FirstBlockEstimates(data) :
          LET estimate == FirstBlockEstimates(data)[i][2]
          IN /\ estimate["minutes"] = Leaving \/ IsLiteral(estimate["minutes"])
             /\ IsLiteral(estimate["length"])

\* C8, amended: when every estimate of the payload's first station block has
\* a minutes value that is "Leaving" or an integer literal and a length that
\* is an integer literal, the response holds one record per estimate of that
\* block, in upstream order, with its group's destination, delay 0, and
\* minutes 0 for "Leaving" and else the integer parsed.
C8_OneRecordPerValidEstimate ==
    (ServedFeed /\ FirstBlockWellFormed(feed)) =>
        OneRecordPer(FirstBlockEstimates(feed))

\* two groups, the sentinel in one and a two-digit value in the other
C8_Witness ==
    /\ ServedFeed /\ FirstBlockWellFormed(feed)
    /\ Len(last.body.departures) = 2
    /\ last.body.departures[1].minutes = 0
    /\ last.body.departures[2].minutes = 12
    /\ last.body.departures[1].destination # last.body.departures[2].destination
    /\ FirstBlockEstimates(feed)[1][2]["minutes"] = Leaving

\* the label a destination is reported under
Label(destination) == IF destination = "" THEN "Unknown" ELSE destination

AgeAt(t, r) == t - r.timestamp

\* C9: the destination analytics of a request at time t reports, per
\* destination, the number of its rows not older than t minus 7 days (a row
\* exactly 7 days old counts, an older one does not), lists no destination
\* without such a row, and answers "No data available" with an empty list,
\* not an error, when there is no such row.  A destination that is the empty
\* string is listed under the label "Unknown".
C9_SevenDayWindow ==
    (last.op = "get_station_analytics" /\ last.failure = "none") =>
        LET counted(x) == {r \in departures :
                              r.destination = x /\ AgeAt(last.at, r) <= WindowDays * DayTicks}
            present == {x \in {r.destination : r \in departures} : counted(x) # {}}
            data == last.body.data
        IN /\ last.code = 200
           /\ Len(data) = Cardinality(present)
           /\ \A x \in present :
                 \E i \in DOMAIN data :
                    /\ data[i].destination = Label(x)
                    /\ data[i].total_departures = Cardinality(counted(x))
           /\ last.body.status =
                 IF present = {} THEN "No data available" ELSE "Data available"

\* a request with one row exactly 7 days old, one older and one younger
C9_Witness ==
    /\ last.op = "get_station_analytics" /\ last.failure = "none"
    /\ \E r, q, p \in departures :
          /\ AgeAt(last.at, r) = WindowDays * DayTicks
          /\ AgeAt(last.at, q) > WindowDays * DayTicks
          /\ AgeAt(last.at, p) < WindowDays * DayTicks
          /\ r.destination = "Daly City" /\ q.destination = "Daly City"
          /\ p.destination = ""
    /\ Len(last.body.data) = 2
    /\ \E i \in 1..2 : last.body.data[i] =
          [destination |-> "Daly City", total_departures |-> 1,
           delayed_trains |-> last.body.data[i].delayed_trains,
           avg_delay_minutes |-> last.body.data[i].avg_delay_minutes]

\* C10: when a request that opened a store handle has been answered, the
\* handle is closed: no store handle remains open.
C10_HandlesClosed == IsResponse => open_handles = 0

====
